---- MODULE Spec2Model ----
(***************************************************************************)
(* Content-aware file cache (content_aware_cache.h / .cpp).                *)
(*                                                                         *)
(* The engine (ContentAwareCache) owns a map from path to shared entry, an *)
(* LRU list with its companion map, four counters, the type-priority table *)
(* and the size bound.  File handles (CacheFile) share ownership of their  *)
(* entry (std::shared_ptr), so an entry lives on in the heap `entries'     *)
(* after it left cacheMap for as long as a handle refers to it.            *)
(*                                                                         *)
(* Every public operation is one action: the engine operations run under   *)
(* cacheMutex for their whole duration, and in this specification a handle *)
(* operation is executed by one caller at a time.                          *)
(*                                                                         *)
(* Scores are fixed-point numbers in units of 1/10000 (10000 is 1.0).      *)
(* Time is counted in steps of 3600 seconds.                               *)
(*                                                                         *)
(* Spec is the cache under every public operation.  RoundTripSpec is a     *)
(* cache that is destroyed and constructed again on the files it left.     *)
(* PrioritySpec is a cache over files of different importance and size     *)
(* under a wall clock that can be set back.  SeekSpec moves the cursor of  *)
(* a handle in every direction.  TypeSpec sets type priorities under       *)
(* several spellings of an extension.  ConcurrentSpec is the cache used by *)
(* several threads, closeFile and a growing write being several steps.     *)
(* OrphanSpec is the handles that outlive the cache that created them.     *)
(***************************************************************************)
EXTENDS Integers, Sequences, FiniteSets, TLC

\* ------------------------------------------------------------------ bounds

\* calls of the public operations, clock steps included, in one behaviour
MaxCalls == 5

\* the paths of the backing files and what path.extension() yields for them
Paths == {"a.cfg", "b.bin"}

\* handle ids; openFile takes the smallest free one
HandleIds == {1, 2}

\* mode strings as character sequences
Modes == {<<"r", "+">>, <<"w">>, <<"a", "+">>}

\* sizes passed to the constructor and to resizeCache
SizeArgs == {1, 3}

\* (buffer, size, count) passed to CacheFile::write, size * count bytes long
WriteArgs ==
    { [buf |-> <<2>>, size |-> 1, count |-> 1],
      [buf |-> <<2, 2>>, size |-> 2, count |-> 1] }

\* (size, count) passed to CacheFile::read
ReadArgs == { [size |-> 2, count |-> 1] }

\* (offset, origin) passed to CacheFile::seek; 0, 1, 2 are SEEK_SET, SEEK_CUR, SEEK_END
SeekArgs == { [offset |-> 0, origin |-> 0], [offset |-> 1, origin |-> 2] }

\* (extension, priority) passed to setFileTypePriority
PriorityArgs == { [ext |-> <<"b", "i", "n">>, priority |-> 9500] }

\* ------------------------------------------------------------- the file system

NoFile == [exists |-> FALSE, data |-> <<>>, ok |-> TRUE]
File(bytes) == [exists |-> TRUE, data |-> bytes, ok |-> TRUE]
\* a file that exists but can be opened neither for reading nor for writing
Locked(bytes) == [exists |-> TRUE, data |-> bytes, ok |-> FALSE]

\* the backing files at the start: a.cfg is there, b.bin is missing, readable
\* or locked
InitDisks ==
    { ("a.cfg" :> File(<<1, 1>>)) @@ ("b.bin" :> f) :
      f \in {NoFile, File(<<1>>), Locked(<<1, 1>>)} }

\* ------------------------------------------------------------------ state

VARIABLES
    maxCacheSize,        \* ContentAwareCache::maxCacheSize
    currentCacheSize,    \* ContentAwareCache::currentCacheSize
    cacheMap,            \* path -> entry id (shared_ptr<CacheEntry>)
    entries,             \* entry id -> CacheEntry, every entry some shared_ptr owns
    lruList,             \* ContentAwareCache::lruList, front first
    lruMap,              \* keys of ContentAwareCache::lruMap
    cacheHits, cacheMisses, diskReads, diskWrites,
    fileTypePriorities,  \* extension -> priority
    cacheMutex,          \* "free", or "deadlocked" once a thread relocked it
    handles,             \* handle id -> CacheFile, or NoHandle
    disk,                \* path -> file
    now,                 \* system_clock::now()
    calls,               \* calls made so far
    lastOp               \* the last call and what it returned

vars ==
    << maxCacheSize, currentCacheSize, cacheMap, entries, lruList, lruMap,
       cacheHits, cacheMisses, diskReads, diskWrites, fileTypePriorities,
       cacheMutex, handles, disk, now, calls, lastOp >>

NoHandle == [open |-> FALSE]

\* the engine's fields as one record, for the helper methods
Cache ==
    [ maxCacheSize |-> maxCacheSize, currentCacheSize |-> currentCacheSize,
      cacheMap |-> cacheMap, entries |-> entries, lruList |-> lruList,
      lruMap |-> lruMap, cacheHits |-> cacheHits, cacheMisses |-> cacheMisses,
      diskReads |-> diskReads, diskWrites |-> diskWrites,
      fileTypePriorities |-> fileTypePriorities ]

\* ------------------------------------------------------------------ helpers

Min(a, b) == IF a < b THEN a ELSE b
Max(a, b) == IF a > b THEN a ELSE b

Range(s) == { s[i] : i \in 1..Len(s) }

Restrict(f, S) == [ x \in S |-> f[x] ]

\* std::string::find(ch) != npos
Contains(mode, ch) == \E i \in 1..Len(mode) : mode[i] = ch

\* fs::path(filePath).extension().string()
Extension(p) ==
    CASE p = "a.cfg" -> <<".", "c", "f", "g">>
      [] p = "b.bin" -> <<".", "b", "i", "n">>
      [] p = "c.exe" -> <<".", "e", "x", "e">>
      [] p = "d.bin" -> <<".", "b", "i", "n">>
      [] OTHER -> <<>>

\* the table the constructor sets up
DefaultPriorities ==
    (<<".", "t", "x", "t">> :> 7000) @@ (<<".", "c", "f", "g">> :> 9000) @@
    (<<".", "c", "o", "n", "f">> :> 9000) @@ (<<".", "i", "n", "i">> :> 9000) @@
    (<<".", "l", "o", "g">> :> 6000) @@ (<<".", "j", "s", "o", "n">> :> 8000) @@
    (<<".", "x", "m", "l">> :> 8000) @@ (<<".", "c", "p", "p">> :> 7000) @@
    (<<".", "h">> :> 7000) @@ (<<".", "c">> :> 7000) @@ (<<".", "p", "y">> :> 7000) @@
    (<<".", "j", "p", "g">> :> 4000) @@ (<<".", "p", "n", "g">> :> 4000) @@
    (<<".", "p", "d", "f">> :> 3000) @@ (<<".", "e", "x", "e">> :> 1000) @@
    (<<".", "s", "o">> :> 1000) @@ (<<".", "d", "l", "l">> :> 1000)

\* 10000 * log2(n)
Log2Table == <<0, 10000, 15850, 20000, 23219, 25850, 28074, 30000, 31699, 33219>>
Log2(n) == IF n <= Len(Log2Table) THEN Log2Table[n] ELSE 90000

\* 10000 * exp(-h) for h steps of 3600 s
ExpTable == <<10000, 3679, 1353, 498, 183>>
\* 10000 * exp(h) for h steps of 3600 s: the duration is a signed count of
\* seconds and is negative when system_clock was set back after the access
ExpGrowthTable == <<27183, 73891, 200855, 545982, 1484132, 4034288>>
ExpNeg(h) ==
    IF h < 0 THEN ExpGrowthTable[Min(-h, Len(ExpGrowthTable))]
    ELSE IF h + 1 <= Len(ExpTable) THEN ExpTable[h + 1] ELSE 0

\* getFileMetadata: the extension is set before file_size can throw; a file
\* whose size cannot be read gets size 0
GetFileMetadata(p) ==
    [ filePath |-> p, fileType |-> Extension(p),
      fileSize |-> IF disk[p].exists THEN Len(disk[p].data) ELSE 0 ]

\* CacheEntry(meta): stats start at 0 accesses and the construction time
NewEntry(meta) ==
    [ filePath |-> meta.filePath, fileType |-> meta.fileType,
      fileSize |-> meta.fileSize, accessCount |-> 0, lastAccessed |-> now,
      data |-> <<>>, priorityScore |-> 0 ]

\* calculatePriorityScore
CalculatePriorityScore(entry, table) ==
    LET typePriority == IF entry.fileType \in DOMAIN table
                        THEN table[entry.fileType] ELSE 5000
        sizeScore == IF entry.fileSize > 1024
                     THEN Min(10000, (10240 * 10000) \div entry.fileSize)
                     ELSE 10000
        accessScore == 1000 + Min(9000, Log2(1 + entry.accessCount) \div 10)
        recencyScore == ExpNeg(now - entry.lastAccessed)
    IN  (typePriority * 3 + sizeScore * 2 + accessScore * 3 + recencyScore * 2) \div 10

\* the smallest id no live entry has
FreshId(c) == CHOOSE i \in 1..(Cardinality(DOMAIN c.entries) + 1) :
                /\ i \notin DOMAIN c.entries
                /\ \A j \in 1..(i - 1) : j \in DOMAIN c.entries

\* index of the node lruMap[p] points at: the node pushed last for p
NodeOf(lru, p) == CHOOSE i \in 1..Len(lru) :
                    lru[i] = p /\ \A j \in 1..(i - 1) : lru[j] # p

EraseAt(s, i) == SubSeq(s, 1, i - 1) \o SubSeq(s, i + 1, Len(s))

\* updateLRU pushing the path without erasing the node it already has
UpdateLRUKeepsOldNode(c, p) ==
    [c EXCEPT !.lruList = <<p>> \o c.lruList, !.lruMap = c.lruMap \cup {p}]

\* updateLRU
UpdateLRU(c, p) ==
    LET erased == IF p \in c.lruMap THEN EraseAt(c.lruList, NodeOf(c.lruList, p))
                  ELSE c.lruList
    IN  [c EXCEPT !.lruList = <<p>> \o erased, !.lruMap = c.lruMap \cup {p}]

\* findEntryForEviction returning the first entry of the scan
FindAnyEntry(c) ==
    IF DOMAIN c.cacheMap = {} THEN {""} ELSE DOMAIN c.cacheMap

\* findEntryForEviction keeping the entry with the highest score
FindEntryWithHighestScore(c) ==
    IF DOMAIN c.cacheMap = {} THEN {""}
    ELSE LET score(p) == c.entries[c.cacheMap[p]].priorityScore
         IN  { p \in DOMAIN c.cacheMap :
                 \A q \in DOMAIN c.cacheMap : score(p) >= score(q) }

\* findEntryForEviction: the paths the scan can return.  The scan keeps the
\* first entry with the lowest score in the iteration order of the
\* unordered_map, which is unspecified: any entry with the lowest score.
\* "" stands for no victim.
FindEntryForEviction(c) ==
    IF DOMAIN c.cacheMap = {} THEN {""}
    ELSE LET score(p) == c.entries[c.cacheMap[p]].priorityScore
             lowest == { p \in DOMAIN c.cacheMap :
                           \A q \in DOMAIN c.cacheMap : score(p) <= score(q) }
         IN  IF lowest # {} THEN lowest
             ELSE IF c.lruList # <<>> THEN {c.lruList[Len(c.lruList)]}
             ELSE {""}

\* evictFile
EvictFile(c, p) ==
    IF p \notin DOMAIN c.cacheMap THEN c
    ELSE LET entry == c.entries[c.cacheMap[p]]
             inLru == p \in c.lruMap
         IN  [c EXCEPT
                !.currentCacheSize = c.currentCacheSize - Len(entry.data),
                !.lruList = IF inLru THEN EraseAt(c.lruList, NodeOf(c.lruList, p))
                            ELSE c.lruList,
                !.lruMap = c.lruMap \ {p},
                !.cacheMap = Restrict(c.cacheMap, DOMAIN c.cacheMap \ {p})]

\* updateAllScores
UpdateAllScores(c) ==
    [c EXCEPT !.entries =
        [ id \in DOMAIN c.entries |->
            IF \E p \in DOMAIN c.cacheMap : c.cacheMap[p] = id
            THEN [c.entries[id] EXCEPT !.priorityScore =
                     CalculatePriorityScore(c.entries[id], c.fileTypePriorities)]
            ELSE c.entries[id] ]]

\* updateEntryScore
UpdateEntryScore(c, p) ==
    IF p \in DOMAIN c.cacheMap
    THEN [c EXCEPT !.entries[c.cacheMap[p]].priorityScore =
             CalculatePriorityScore(c.entries[c.cacheMap[p]], c.fileTypePriorities)]
    ELSE c

\* the while loop of makeRoomInCache: the states it can end in
RECURSIVE EvictLoop(_, _)
EvictLoop(c, requiredSize) ==
    IF c.currentCacheSize + requiredSize > c.maxCacheSize /\ DOMAIN c.cacheMap # {}
    THEN UNION { IF victimPath = "" THEN {c}
                 ELSE EvictLoop(EvictFile(c, victimPath), requiredSize) :
                 victimPath \in FindEntryForEviction(c) }
    ELSE {c}

\* makeRoomInCache that would raise maxCacheSize at once, evicting nothing
MakeRoomByEnlarging(c, requiredSize) ==
    IF c.currentCacheSize + requiredSize <= c.maxCacheSize THEN {c}
    ELSE { [c EXCEPT !.maxCacheSize = c.currentCacheSize + requiredSize] }

\* makeRoomInCache: the states it can return in
MakeRoomInCache(c, requiredSize) ==
    IF c.currentCacheSize + requiredSize <= c.maxCacheSize THEN {c}
    ELSE { IF d.currentCacheSize + requiredSize > d.maxCacheSize
           THEN [d EXCEPT !.maxCacheSize = d.currentCacheSize + requiredSize]
           ELSE d :
           d \in EvictLoop(UpdateAllScores(c), requiredSize) }

\* loadFileIntoCache: the results it can have.  The room is made before the
\* file is opened for reading.
LoadFileIntoCache(c, p) ==
    LET metadata == GetFileMetadata(p)
    IN  IF metadata.fileSize = 0 THEN { [c |-> c, ok |-> FALSE] }
        ELSE { IF ~disk[p].ok THEN [c |-> d, ok |-> FALSE]
               ELSE LET id == FreshId(d)
                        entry == [NewEntry(metadata) EXCEPT !.data = disk[p].data]
                        d1 == [d EXCEPT
                                 !.entries = (id :> entry) @@ d.entries,
                                 !.cacheMap = (p :> id) @@ d.cacheMap,
                                 !.currentCacheSize = @ + metadata.fileSize]
                        d2 == UpdateLRU(d1, p)
                        d3 == [d2 EXCEPT !.diskReads = @ + 1]
                    IN  [c |-> UpdateEntryScore(d3, p), ok |-> TRUE] :
               d \in MakeRoomInCache(c, metadata.fileSize) }

\* the hit branch of openFile forgetting updateLRU
OpenHitWithoutTouch(c, p) == [c EXCEPT !.cacheHits = @ + 1]

\* openFile, the path is in cacheMap
OpenHit(c, p) == UpdateLRU([c EXCEPT !.cacheHits = @ + 1], p)

\* openFile counting the miss only where a handle is returned, that is not here
CountNoMiss(c) == c

\* openFile, the miss is counted before anything else is looked at
CountMiss(c) == [c EXCEPT !.cacheMisses = @ + 1]

\* openFile, "Create empty file for writing"
CreateEmptyEntry(c, p) ==
    LET metadata == [GetFileMetadata(p) EXCEPT !.fileSize = 0]
        id == FreshId(c)
        d == [c EXCEPT !.entries = (id :> NewEntry(metadata)) @@ c.entries,
                       !.cacheMap = (p :> id) @@ c.cacheMap]
    IN  UpdateLRU(d, p)

\* openFile: the results it can have; entry 0 stands for nullptr
OpenFileResults(c, p, mode) ==
    IF p \in DOMAIN c.cacheMap
    THEN { [c |-> OpenHit(c, p), ret |-> "hit", entry |-> c.cacheMap[p]] }
    ELSE LET m == CountMiss(c)
         IN  IF Contains(mode, "r") /\ ~disk[p].exists
             THEN { [c |-> m, ret |-> "notfound", entry |-> 0] }
             ELSE IF Contains(mode, "w")
             THEN LET d == CreateEmptyEntry(m, p)
                  IN  { [c |-> d, ret |-> "created", entry |-> d.cacheMap[p]] }
             ELSE { IF r.ok
                    THEN [c |-> r.c, ret |-> "loaded", entry |-> r.c.cacheMap[p]]
                    ELSE [c |-> r.c, ret |-> "ioerror", entry |-> 0] :
                    r \in LoadFileIntoCache(m, p) }

\* ------------------------------------------------------------------ actions

\* the entries some shared_ptr still owns: those of the map and of the handles
Owned(c, hs) ==
    { c.cacheMap[p] : p \in DOMAIN c.cacheMap } \cup
    { hs[h].entry : h \in { k \in HandleIds : hs[k].open } }

\* the engine's fields and the handles after an operation
Commit(c, hs) ==
    /\ maxCacheSize' = c.maxCacheSize
    /\ currentCacheSize' = c.currentCacheSize
    /\ cacheMap' = c.cacheMap
    /\ entries' = Restrict(c.entries, Owned(c, hs))
    /\ lruList' = c.lruList
    /\ lruMap' = c.lruMap
    /\ cacheHits' = c.cacheHits
    /\ cacheMisses' = c.cacheMisses
    /\ diskReads' = c.diskReads
    /\ diskWrites' = c.diskWrites
    /\ fileTypePriorities' = c.fileTypePriorities
    /\ handles' = hs

\* one more call by the client; a client whose call never returned makes none
Call ==
    /\ cacheMutex = "free"
    /\ calls < MaxCalls
    /\ calls' = calls + 1

Op(op, p, h, ret, n) == [op |-> op, path |-> p, h |-> h, ret |-> ret, n |-> n]

\* a call of a CacheFile method with its arguments
OpWith(op, p, h, ret, n, arg) ==
    [op |-> op, path |-> p, h |-> h, ret |-> ret, n |-> n, arg |-> arg]

FreeHandle == CHOOSE h \in HandleIds :
                ~handles[h].open /\ \A k \in HandleIds : k < h => handles[k].open

\* new CacheFile(entry, mode, weak_from_this()).  wrote is not a member of
\* CacheFile: it records that a write through the handle has copied bytes,
\* which modified forgets at the next flush.
NewHandle(id, mode) ==
    [open |-> TRUE, entry |-> id, position |-> 0, mode |-> mode, modified |-> FALSE,
     wrote |-> FALSE]

OpenFile(p, mode) ==
    /\ Call
    /\ \E h \in HandleIds : ~handles[h].open
    /\ \E r \in OpenFileResults(Cache, p, mode) :
        /\ Commit(r.c, IF r.entry # 0
                       THEN [handles EXCEPT ![FreeHandle] = NewHandle(r.entry, mode)]
                       ELSE handles)
        /\ lastOp' = Op("open", p, IF r.entry # 0 THEN FreeHandle ELSE 0, r.ret, 0)
    /\ UNCHANGED <<cacheMutex, disk, now>>

\* CacheFile::read copying whole items only
BytesToCopyWholeItems(data, position, a) ==
    (Min(a.size * a.count, Len(data) - position) \div a.size) * a.size

\* CacheFile::read, bytesToCopy = std::min(bytesToRead, bytesAvailable)
BytesToCopy(data, position, a) ==
    LET bytesToRead == a.size * a.count
        bytesAvailable == Len(data) - position
    IN  Min(bytesToRead, bytesAvailable)

\* CacheFile::read
Read(h, a) ==
    /\ Call
    /\ handles[h].open
    /\ LET f == handles[h]
           entry == entries[f.entry]
           bytesToCopy == BytesToCopy(entry.data, f.position, a)
       IN  IF ~Contains(f.mode, "r")
           THEN /\ lastOp' = OpWith("read", entry.filePath, h, "nomode", 0, a)
                /\ UNCHANGED handles
           ELSE /\ handles' = [handles EXCEPT ![h].position = @ + bytesToCopy]
                /\ lastOp' = OpWith("read", entry.filePath, h, "ok",
                                    bytesToCopy \div a.size, a)
    /\ UNCHANGED << maxCacheSize, currentCacheSize, cacheMap, entries, lruList,
                    lruMap, cacheHits, cacheMisses, diskReads, diskWrites,
                    fileTypePriorities, cacheMutex, disk, now >>

\* std::vector<char>::resize: new elements are value-initialised
ResizeData(data, newSize) ==
    [ i \in 1..newSize |-> IF i <= Len(data) THEN data[i] ELSE 0 ]

\* std::memcpy(entry->data.data(), buffer, n): the copy ignoring the position
MemcpyAtFront(data, position, buffer, n) ==
    [ i \in 1..Len(data) |-> IF i <= n THEN buffer[i] ELSE data[i] ]

\* std::memcpy(entry->data.data() + position, buffer, n)
Memcpy(data, position, buffer, n) ==
    [ i \in 1..Len(data) |->
        IF i > position /\ i <= position + n THEN buffer[i - position] ELSE data[i] ]

\* CacheFile::write growing the buffer without cache->currentCacheSize +=
\* additionalSpace
GrowBufferUncharged(c, id, newSize) ==
    LET additionalSpace == newSize - Len(c.entries[id].data)
    IN  { [d EXCEPT !.entries[id].data = ResizeData(@, newSize)] :
          d \in MakeRoomInCache(c, additionalSpace) }

\* CacheFile::write, "Check if we need to resize the buffer": the room is made
\* in the engine, the buffer of the handle's entry grows and the added bytes
\* are charged to the engine
GrowBuffer(c, id, newSize) ==
    LET additionalSpace == newSize - Len(c.entries[id].data)
    IN  { [d EXCEPT !.entries[id].data = ResizeData(@, newSize),
                    !.currentCacheSize = @ + additionalSpace] :
          d \in MakeRoomInCache(c, additionalSpace) }

\* CacheFile::write
Write(h, a) ==
    /\ Call
    /\ handles[h].open
    /\ LET f == handles[h]
           entry == entries[f.entry]
           bytesToWrite == a.size * a.count
           position == IF Contains(f.mode, "a") /\ f.position # Len(entry.data)
                       THEN Len(entry.data) ELSE f.position
       IN  IF ~Contains(f.mode, "w") /\ ~Contains(f.mode, "a")
           THEN /\ lastOp' = OpWith("write", entry.filePath, h, "nomode", 0, a)
                /\ UNCHANGED << maxCacheSize, currentCacheSize, cacheMap, entries,
                                lruList, lruMap, cacheHits, cacheMisses, diskReads,
                                diskWrites, fileTypePriorities, handles >>
           ELSE /\ \E d \in IF position + bytesToWrite > Len(entry.data)
                            THEN GrowBuffer(Cache, f.entry, position + bytesToWrite)
                            ELSE {Cache} :
                     Commit([d EXCEPT !.entries[f.entry].data =
                                Memcpy(@, position, a.buf, bytesToWrite)],
                            [handles EXCEPT ![h].position = position + bytesToWrite,
                                            ![h].modified = TRUE,
                                            ![h].wrote = TRUE])
                /\ lastOp' = OpWith("write", entry.filePath, h, "ok", a.count, a)
    /\ UNCHANGED <<cacheMutex, disk, now>>

\* a conversion to size_t that would stop at 0 instead of wrapping
ToSizeTSaturating(x) == IF x < 0 THEN 0 ELSE x % (2 ^ 16)

\* size_t arithmetic wraps; the width is scaled down to 16 bits, far above
\* every length of the model
ToSizeT(x) == x % (2 ^ 16)

\* CacheFile::seek; the new position is a size_t
Seek(h, a) ==
    /\ Call
    /\ handles[h].open
    /\ LET f == handles[h]
           entry == entries[f.entry]
           known == a.origin \in {0, 1, 2}
           newPosition == CASE a.origin = 0 -> ToSizeT(a.offset)
                            [] a.origin = 1 -> ToSizeT(f.position + a.offset)
                            [] OTHER -> ToSizeT(Len(entry.data) + a.offset)
       IN  IF ~known \/ newPosition > Len(entry.data)
           THEN /\ lastOp' = OpWith("seek", entry.filePath, h, "fail", -1, a)
                /\ UNCHANGED handles
           ELSE /\ handles' = [handles EXCEPT ![h].position = newPosition]
                /\ lastOp' = OpWith("seek", entry.filePath, h, "ok", 0, a)
    /\ UNCHANGED << maxCacheSize, currentCacheSize, cacheMap, entries, lruList,
                    lruMap, cacheHits, cacheMisses, diskReads, diskWrites,
                    fileTypePriorities, cacheMutex, disk, now >>

\* std::ofstream file(path, std::ios::binary) opens
CanWrite(dk, p) == ~dk[p].exists \/ dk[p].ok

\* CacheFile::flush writing the file back without counting the write
FileFlushUncounted(c, dk, f) ==
    LET entry == c.entries[f.entry]
        p == entry.filePath
    IN  IF ~f.modified THEN [c |-> c, disk |-> dk, modified |-> FALSE, ret |-> 0]
        ELSE IF ~CanWrite(dk, p)
        THEN [c |-> c, disk |-> dk, modified |-> TRUE, ret |-> -1]
        ELSE [ c |-> c, disk |-> [dk EXCEPT ![p] = File(entry.data)],
               modified |-> FALSE, ret |-> 0 ]

\* CacheFile::flush: the engine, the disk, the handle's flag and the result
FileFlush(c, dk, f) ==
    LET entry == c.entries[f.entry]
        p == entry.filePath
    IN  IF ~f.modified THEN [c |-> c, disk |-> dk, modified |-> FALSE, ret |-> 0]
        ELSE IF ~CanWrite(dk, p)
        THEN [c |-> c, disk |-> dk, modified |-> TRUE, ret |-> -1]
        ELSE [ c |-> [c EXCEPT !.diskWrites = @ + 1],
               disk |-> [dk EXCEPT ![p] = File(entry.data)],
               modified |-> FALSE, ret |-> 0 ]

\* CacheFile::flush called on the handle
HandleFlush(h) ==
    /\ Call
    /\ handles[h].open
    /\ LET r == FileFlush(Cache, disk, handles[h])
       IN  /\ Commit(r.c, [handles EXCEPT ![h].modified = r.modified])
           /\ disk' = r.disk
           /\ lastOp' = Op("hflush", entries[handles[h].entry].filePath, h,
                           IF r.ret = 0 THEN "ok" ELSE "fail", r.ret)
    /\ UNCHANGED <<cacheMutex, now>>

\* CacheFile::~CacheFile, "Update access stats"
UpdateAccessStats(c, id) ==
    UpdateEntryScore([c EXCEPT !.entries[id].accessCount = @ + 1,
                               !.entries[id].lastAccessed = now],
                     c.entries[id].filePath)

\* closeFile: delete file, which runs CacheFile::~CacheFile
CloseFile(h) ==
    /\ Call
    /\ handles[h].open
    /\ LET r == FileFlush(Cache, disk, handles[h])
       IN  /\ Commit(UpdateAccessStats(r.c, handles[h].entry),
                     [handles EXCEPT ![h] = NoHandle])
           /\ disk' = r.disk
           /\ lastOp' = Op("close", entries[handles[h].entry].filePath, h,
                           IF r.ret = 0 THEN "ok" ELSE "fail", r.ret)
    /\ UNCHANGED <<cacheMutex, now>>

\* ContentAwareCache::flush counting one write for the whole loop
FlushAllCountsOnce(c, dk) ==
    LET written == { p \in DOMAIN c.cacheMap : CanWrite(dk, p) }
    IN  [ c |-> [c EXCEPT !.diskWrites = @ + 1],
          disk |-> [ p \in Paths |->
                       IF p \in written THEN File(c.entries[c.cacheMap[p]].data)
                       ELSE dk[p] ] ]

\* the loop of ContentAwareCache::flush: every entry of the map whose file
\* opens for writing is written and counted
FlushAll(c, dk) ==
    LET written == { p \in DOMAIN c.cacheMap : CanWrite(dk, p) }
    IN  [ c |-> [c EXCEPT !.diskWrites = @ + Cardinality(written)],
          disk |-> [ p \in Paths |->
                       IF p \in written THEN File(c.entries[c.cacheMap[p]].data)
                       ELSE dk[p] ] ]

\* ContentAwareCache::flush
Flush ==
    /\ Call
    /\ LET r == FlushAll(Cache, disk)
       IN  /\ Commit(r.c, handles)
           /\ disk' = r.disk
    /\ lastOp' = Op("flush", "", 0, "ok", 0)
    /\ UNCHANGED <<cacheMutex, now>>

\* ContentAwareCache::clear leaving currentCacheSize as it is
ClearAllKeepsSize(c) ==
    [c EXCEPT !.cacheMap = <<>>, !.lruList = <<>>, !.lruMap = {}]

\* ContentAwareCache::clear after its call of flush
ClearAll(c) ==
    [c EXCEPT !.cacheMap = <<>>, !.lruList = <<>>, !.lruMap = {},
              !.currentCacheSize = 0]

\* ContentAwareCache::clear locks cacheMutex and calls flush, which locks it
\* again: std::mutex is not recursive and the second lock is undefined
\* behaviour.  Where the lock goes through, clear runs to its end.
ClearCompletes ==
    /\ Call
    /\ LET r == FlushAll(Cache, disk)
       IN  /\ Commit(ClearAll(r.c), handles)
           /\ disk' = r.disk
    /\ lastOp' = Op("clear", "", 0, "ok", 0)
    /\ UNCHANGED <<cacheMutex, now>>

\* Where the second lock blocks, the calling thread never returns and never
\* releases cacheMutex.
ClearDeadlocks ==
    /\ Call
    /\ cacheMutex' = "deadlocked"
    /\ lastOp' = Op("clear", "", 0, "deadlock", 0)
    /\ UNCHANGED << maxCacheSize, currentCacheSize, cacheMap, entries, lruList,
                    lruMap, cacheHits, cacheMisses, diskReads, diskWrites,
                    fileTypePriorities, handles, disk, now >>

\* resizeCache, "Need to evict some files"
ShrinkTo(c, newMaxSize) ==
    IF newMaxSize < c.maxCacheSize
    THEN MakeRoomInCache(c, c.maxCacheSize - newMaxSize)
    ELSE {c}

\* resizeCache
ResizeCache(newMaxSize) ==
    /\ Call
    /\ \E d \in ShrinkTo(Cache, newMaxSize) :
         Commit([d EXCEPT !.maxCacheSize = newMaxSize], handles)
    /\ lastOp' = Op("resize", "", 0, "ok", newMaxSize)
    /\ UNCHANGED <<cacheMutex, disk, now>>

\* setFileTypePriority, "Ensure extension starts with a dot"
NormalizeExtension(extension) ==
    IF extension # <<>> /\ extension[1] # "." THEN <<".">> \o extension
    ELSE extension

\* setFileTypePriority storing the priority without rescoring the entries
SetPriorityWithoutRescoring(c, extension, priority) ==
    LET ext == NormalizeExtension(extension)
    IN  [c EXCEPT !.fileTypePriorities =
            (ext :> Max(0, Min(10000, priority))) @@ c.fileTypePriorities]

\* setFileTypePriority
SetPriority(c, extension, priority) ==
    LET ext == NormalizeExtension(extension)
        table == (ext :> Max(0, Min(10000, priority))) @@ c.fileTypePriorities
    IN  [c EXCEPT
           !.fileTypePriorities = table,
           !.entries =
              [ id \in DOMAIN c.entries |->
                  IF /\ \E p \in DOMAIN c.cacheMap : c.cacheMap[p] = id
                     /\ c.entries[id].fileType = ext
                  THEN [c.entries[id] EXCEPT !.priorityScore =
                           CalculatePriorityScore(c.entries[id], table)]
                  ELSE c.entries[id] ]]

SetFileTypePriority(a) ==
    /\ Call
    /\ Commit(SetPriority(Cache, a.ext, a.priority), handles)
    /\ lastOp' = OpWith("priority", "", 0, "ok", 0, a)
    /\ UNCHANGED <<cacheMutex, disk, now>>

\* the wall clock advances
Tick ==
    /\ Call
    /\ now' = now + 1
    /\ lastOp' = Op("tick", "", 0, "", 0)
    /\ UNCHANGED << maxCacheSize, currentCacheSize, cacheMap, entries, lruList,
                    lruMap, cacheHits, cacheMisses, diskReads, diskWrites,
                    fileTypePriorities, cacheMutex, handles, disk >>

Init ==
    /\ maxCacheSize \in SizeArgs
    /\ currentCacheSize = 0
    /\ cacheMap = <<>>
    /\ entries = <<>>
    /\ lruList = <<>>
    /\ lruMap = {}
    /\ cacheHits = 0
    /\ cacheMisses = 0
    /\ diskReads = 0
    /\ diskWrites = 0
    /\ fileTypePriorities = DefaultPriorities
    /\ cacheMutex = "free"
    /\ handles = [h \in HandleIds |-> NoHandle]
    /\ disk \in InitDisks
    /\ now = 0
    /\ calls = 0
    /\ lastOp = Op("init", "", 0, "", 0)

Next ==
    \/ \E p \in Paths, mode \in Modes : OpenFile(p, mode)
    \/ \E h \in HandleIds, a \in ReadArgs : Read(h, a)
    \/ \E h \in HandleIds, a \in WriteArgs : Write(h, a)
    \/ \E h \in HandleIds, a \in SeekArgs : Seek(h, a)
    \/ \E h \in HandleIds : HandleFlush(h)
    \/ \E h \in HandleIds : CloseFile(h)
    \/ Flush
    \/ ClearCompletes
    \/ ClearDeadlocks
    \/ \E n \in SizeArgs : ResizeCache(n)
    \/ \E a \in PriorityArgs : SetFileTypePriority(a)
    \/ Tick

Spec == Init /\ [][Next]_vars

\* ------------------------------------------------- a cache after the cache

\* ~ContentAwareCache, which calls flush(), then ContentAwareCache(maxSize):
\* the process ends with every handle closed and the next one starts on the
\* files it left
FreshCache(maxSize) ==
    /\ cacheMutex = "free"
    /\ \A h \in HandleIds : ~handles[h].open
    /\ disk' = FlushAll(Cache, disk).disk
    /\ maxCacheSize' = maxSize
    /\ currentCacheSize' = 0
    /\ cacheMap' = <<>>
    /\ entries' = <<>>
    /\ lruList' = <<>>
    /\ lruMap' = {}
    /\ cacheHits' = 0
    /\ cacheMisses' = 0
    /\ diskReads' = 0
    /\ diskWrites' = 0
    /\ fileTypePriorities' = DefaultPriorities
    /\ lastOp' = Op("fresh", "", 0, "ok", maxSize)
    /\ UNCHANGED <<cacheMutex, handles, now, calls>>

\* modes of the handles that write a file and that read it back
RoundTripModes == {<<"w">>, <<"r">>}

\* what is written: nothing at all, no byte, one byte, two bytes
RoundTripWriteArgs ==
    WriteArgs \cup { [buf |-> <<>>, size |-> 1, count |-> 0] }

\* files are written through one cache and read through the next
RoundTripNext ==
    \/ \E p \in Paths, mode \in RoundTripModes : OpenFile(p, mode)
    \/ \E h \in HandleIds, a \in RoundTripWriteArgs : Write(h, a)
    \/ \E h \in HandleIds, a \in ReadArgs : Read(h, a)
    \/ \E h \in HandleIds : CloseFile(h)
    \/ \E n \in SizeArgs : FreshCache(n)

RoundTripSpec == Init /\ [][RoundTripNext]_vars

\* ------------------------------------------- files of different importance

\* a .cfg (0.9 in the constructor's table), an .exe (0.1) and two .bin (not in
\* the table)
PriorityPaths == {"a.cfg", "b.bin", "c.exe", "d.bin"}

\* a file of n bytes
Bytes(n) == [ i \in 1..n |-> 1 ]

\* the cache size passed to the constructor and the files of the two cases:
\* three files of 2 bytes for a cache of 4, and files of 256, 1536 and 1024
\* bytes for a cache of 2048
PriorityCases ==
    { [ maxSize |-> 4,
        disk |-> ("a.cfg" :> File(Bytes(2))) @@ ("b.bin" :> File(Bytes(2))) @@
                 ("c.exe" :> File(Bytes(2))) @@ ("d.bin" :> NoFile) ],
      [ maxSize |-> 2048,
        disk |-> ("a.cfg" :> File(Bytes(256))) @@ ("b.bin" :> File(Bytes(1536))) @@
                 ("c.exe" :> NoFile) @@ ("d.bin" :> File(Bytes(1024))) ] }

PriorityInit ==
    /\ \E case \in PriorityCases :
         /\ maxCacheSize = case.maxSize
         /\ disk = case.disk
    /\ currentCacheSize = 0
    /\ cacheMap = <<>>
    /\ entries = <<>>
    /\ lruList = <<>>
    /\ lruMap = {}
    /\ cacheHits = 0
    /\ cacheMisses = 0
    /\ diskReads = 0
    /\ diskWrites = 0
    /\ fileTypePriorities = DefaultPriorities
    /\ cacheMutex = "free"
    /\ handles = [h \in HandleIds |-> NoHandle]
    /\ now = 0
    /\ calls = 0
    /\ lastOp = Op("init", "", 0, "", 0)

\* std::chrono::system_clock is the wall clock, which is not steady: it is set
\* back by the administrator or by a time synchronisation
ClockSetBack ==
    /\ Call
    /\ now' = now - 1
    /\ lastOp' = Op("setback", "", 0, "", 0)
    /\ UNCHANGED << maxCacheSize, currentCacheSize, cacheMap, entries, lruList,
                    lruMap, cacheHits, cacheMisses, diskReads, diskWrites,
                    fileTypePriorities, cacheMutex, handles, disk >>

\* files are loaded, created, written to and closed and the cache is resized
\* while the wall clock runs and is adjusted
PriorityNext ==
    \/ \E p \in PriorityPaths, mode \in RoundTripModes : OpenFile(p, mode)
    \/ \E h \in HandleIds, a \in WriteArgs : Write(h, a)
    \/ \E h \in HandleIds : CloseFile(h)
    \/ \E n \in SizeArgs : ResizeCache(n)
    \/ Tick
    \/ ClockSetBack

PrioritySpec == PriorityInit /\ [][PriorityNext]_vars

\* ------------------------------------------------------- moving the cursor

\* (offset, origin) passed to CacheFile::seek: forwards and backwards from the
\* three origins, and an origin that is none of them
SeekCases ==
    SeekArgs \cup
    { [offset |-> -1, origin |-> 0], [offset |-> 1, origin |-> 0],
      [offset |-> -1, origin |-> 1], [offset |-> 1, origin |-> 1],
      [offset |-> -1, origin |-> 2], [offset |-> -3, origin |-> 2],
      [offset |-> 0, origin |-> 3] }

\* CacheFile::tell
Tell(h) ==
    /\ Call
    /\ handles[h].open
    /\ lastOp' = Op("tell", entries[handles[h].entry].filePath, h, "ok",
                    handles[h].position)
    /\ UNCHANGED << maxCacheSize, currentCacheSize, cacheMap, entries, lruList,
                    lruMap, cacheHits, cacheMisses, diskReads, diskWrites,
                    fileTypePriorities, cacheMutex, handles, disk, now >>

\* files are opened and written to, and the cursor is moved and asked for
SeekNext ==
    \/ \E p \in Paths, mode \in Modes : OpenFile(p, mode)
    \/ \E h \in HandleIds, a \in WriteArgs : Write(h, a)
    \/ \E h \in HandleIds, a \in SeekCases : Seek(h, a)
    \/ \E h \in HandleIds : Tell(h)

SeekSpec == Init /\ [][SeekNext]_vars

\* ------------------------------------------------- spellings of a file type

\* the extension of a.cfg as a caller can spell it
CfgSpellings ==
    { <<"C", "F", "G">>, <<".", "C", "F", "G">>, <<"c", "f", "g">>,
      <<".", "c", "f", "g">> }

\* (extension, priority) passed to setFileTypePriority: the spellings of .cfg
\* and the extension of b.bin, with priorities below, inside and above [0, 1]
TypeArgs ==
    { [ext |-> e, priority |-> v] :
        e \in CfgSpellings \cup {<<"b", "i", "n">>}, v \in {-5000, 2000, 20000} }

\* files are opened and closed and type priorities are set while time passes
TypeNext ==
    \/ \E p \in Paths, mode \in RoundTripModes : OpenFile(p, mode)
    \/ \E h \in HandleIds : CloseFile(h)
    \/ \E a \in TypeArgs : SetFileTypePriority(a)
    \/ Tick

TypeSpec == Init /\ [][TypeNext]_vars

\* ------------------------------------------------------- several threads

\* One thread per call.  openFile holds cacheMutex from its first to its
\* last access and is one step, as is a write in place.  closeFile is three
\* steps, CacheFile::flush doing its file I/O without cacheMutex.  A write
\* that grows the buffer is two steps, cacheMutex being held in between; the
\* statistics accessors do not lock it.

\* one more step of some thread, cacheMutex not needed
Step ==
    /\ calls < MaxCalls
    /\ calls' = calls + 1

\* the handle is inside closeFile
InClose(h) == handles[h].open /\ "closing" \in DOMAIN handles[h]

\* the handle is inside a write that grows the buffer
InWrite(h) == handles[h].open /\ "growing" \in DOMAIN handles[h]

\* the handle is inside CacheFile::flush, its file opened for writing
InFlush(h) == InClose(h) /\ handles[h].closing.stage = "flushing"

\* a handle inside closeFile; before is the file as it was when CacheFile::flush
\* opened it
ClosingHandle(f, stage, before) ==
    [ open |-> TRUE, entry |-> f.entry, position |-> f.position, mode |-> f.mode,
      modified |-> f.modified, wrote |-> f.wrote,
      closing |-> [stage |-> stage, before |-> before] ]

\* ~CacheFile calls flush(): std::ofstream file(path) creates or truncates
\* the file; cacheMutex is not held
FlushOpensFile(h) ==
    /\ Step
    /\ handles[h].open
    /\ ~InClose(h)
    /\ ~InWrite(h)
    /\ handles[h].modified
    /\ LET p == entries[handles[h].entry].filePath
       IN  /\ CanWrite(disk, p)
           /\ disk' = [disk EXCEPT ![p] = File(<<>>)]
           /\ handles' = [handles EXCEPT
                            ![h] = ClosingHandle(handles[h], "flushing", disk[p])]
           /\ lastOp' = Op("truncate", p, h, "", 0)
    /\ UNCHANGED << maxCacheSize, currentCacheSize, cacheMap, entries, lruList,
                    lruMap, cacheHits, cacheMisses, diskReads, diskWrites,
                    fileTypePriorities, cacheMutex, now >>

\* CacheFile::flush: the buffer goes to the file and, under cacheMutex,
\* diskWrites is incremented
FlushCountsWrite(h) ==
    /\ Call
    /\ InFlush(h)
    /\ LET p == entries[handles[h].entry].filePath
       IN  /\ disk' = [disk EXCEPT ![p] = File(entries[handles[h].entry].data)]
           /\ Commit([Cache EXCEPT !.diskWrites = @ + 1],
                     [handles EXCEPT
                        ![h] = ClosingHandle([handles[h] EXCEPT !.modified = FALSE],
                                             "flushed", handles[h].closing.before)])
           /\ lastOp' = Op("written", p, h, "", 0)
    /\ UNCHANGED <<cacheMutex, now>>

\* ~CacheFile, "Update access stats", under cacheMutex; a handle that is not
\* modified, or whose file does not open for writing, comes here at once
DestructorUpdatesStats(h) ==
    /\ Call
    /\ handles[h].open
    /\ ~InWrite(h)
    /\ IF InClose(h) THEN handles[h].closing.stage = "flushed"
       ELSE \/ ~handles[h].modified
            \/ ~CanWrite(disk, entries[handles[h].entry].filePath)
    /\ Commit(UpdateAccessStats(Cache, handles[h].entry),
              [handles EXCEPT ![h] = NoHandle])
    /\ lastOp' = Op("close", entries[handles[h].entry].filePath, h,
                    IF handles[h].modified THEN "fail" ELSE "ok", 0)
    /\ UNCHANGED <<cacheMutex, disk, now>>

\* the position CacheFile::write writes at, "If appending, move to the end"
WritePosition(f, data) ==
    IF Contains(f.mode, "a") /\ f.position # Len(data) THEN Len(data) ELSE f.position

\* CacheFile::write, "Check if we need to resize the buffer"
Grows(h, a) ==
    /\ handles[h].open
    /\ Contains(handles[h].mode, "w") \/ Contains(handles[h].mode, "a")
    /\ LET data == entries[handles[h].entry].data
       IN  WritePosition(handles[h], data) + a.size * a.count > Len(data)

\* a handle inside a growing write, with the arguments of the write
GrowingHandle(f, position, a) ==
    [ open |-> TRUE, entry |-> f.entry, position |-> position, mode |-> f.mode,
      modified |-> f.modified, wrote |-> f.wrote, growing |-> a ]

\* CacheFile::write that grows the buffer: cacheMutex is locked and
\* makeRoomInCache has run
WriteMakesRoom(h, a) ==
    /\ Call
    /\ handles[h].open
    /\ ~InClose(h)
    /\ ~InWrite(h)
    /\ Grows(h, a)
    /\ LET f == handles[h]
           data == entries[f.entry].data
           position == WritePosition(f, data)
           additionalSpace == position + a.size * a.count - Len(data)
       IN  /\ \E d \in MakeRoomInCache(Cache, additionalSpace) :
                Commit(d, [handles EXCEPT ![h] = GrowingHandle(f, position, a)])
           /\ lastOp' = Op("writing", entries[f.entry].filePath, h, "", additionalSpace)
    /\ cacheMutex' = "held"
    /\ UNCHANGED <<disk, now>>

\* CacheFile::write that grows the buffer: the buffer is resized, the added
\* bytes are charged, cacheMutex is unlocked and the bytes are copied
WriteGrows(h) ==
    /\ Step
    /\ InWrite(h)
    /\ LET f == handles[h]
           a == f.growing
           data == entries[f.entry].data
           newSize == f.position + a.size * a.count
       IN  /\ Commit([Cache EXCEPT
                        !.entries[f.entry].data =
                            Memcpy(ResizeData(@, newSize), f.position, a.buf,
                                   a.size * a.count),
                        !.currentCacheSize = @ + (newSize - Len(data))],
                     [handles EXCEPT
                        ![h] = [NewHandle(f.entry, f.mode) EXCEPT
                                  !.position = newSize,
                                  !.modified = TRUE,
                                  !.wrote = TRUE]])
           /\ lastOp' = OpWith("write", entries[f.entry].filePath, h, "ok",
                               a.count, a)
    /\ cacheMutex' = "free"
    /\ UNCHANGED <<disk, now>>

\* printStats, getCacheSize, getCacheEntryCount, getDiskReadCount,
\* getDiskWriteCount, getHitRate: the fields are read, no lock is taken
PrintStats ==
    /\ Step
    /\ lastOp' = Op("printStats", "", 0,
                    IF cacheMutex = "free" THEN "ok" ELSE "unlocked",
                    << currentCacheSize, maxCacheSize, Cardinality(DOMAIN cacheMap),
                       cacheHits, cacheMisses, diskReads, diskWrites >>)
    /\ UNCHANGED << maxCacheSize, currentCacheSize, cacheMap, entries, lruList,
                    lruMap, cacheHits, cacheMisses, diskReads, diskWrites,
                    fileTypePriorities, cacheMutex, handles, disk, now >>

ConcurrentNext ==
    \/ \E p \in Paths, mode \in RoundTripModes : OpenFile(p, mode)
    \/ \E h \in HandleIds, a \in WriteArgs :
         ~InClose(h) /\ ~InWrite(h) /\ ~Grows(h, a) /\ Write(h, a)
    \/ \E h \in HandleIds, a \in WriteArgs : WriteMakesRoom(h, a)
    \/ \E h \in HandleIds : WriteGrows(h)
    \/ \E h \in HandleIds : FlushOpensFile(h)
    \/ \E h \in HandleIds : FlushCountsWrite(h)
    \/ \E h \in HandleIds : DestructorUpdatesStats(h)
    \/ PrintStats

ConcurrentSpec == Init /\ [][ConcurrentNext]_vars

\* ------------------------------------------------- handles after the cache

\* The handles openFile returns are plain pointers that the caller deletes:
\* they can outlive the cache.  cachePtr.lock() then yields nothing, and the
\* handle still owns its entry.

\* the last shared_ptr to the cache is dropped while handles are open:
\* ~ContentAwareCache calls flush(), then the members are destroyed
DestroyCache ==
    /\ Call
    /\ \E h \in HandleIds : handles[h].open
    /\ LET r == FlushAll(Cache, disk)
       IN  /\ Commit([r.c EXCEPT !.cacheMap = <<>>, !.lruList = <<>>, !.lruMap = {}],
                     handles)
           /\ disk' = r.disk
    /\ cacheMutex' = "destroyed"
    /\ lastOp' = Op("destroy", "", 0, "ok", 0)
    /\ UNCHANGED now

\* CacheFile::write when cachePtr.lock() yields nothing: the buffer is not
\* resized.  A write that ends inside the buffer is as ever.  One that ends
\* past the end makes std::memcpy write past the end of the vector, which is
\* undefined: the process is stopped, or the write returns with the bytes that
\* fit copied and the position advanced by all of them.
OrphanWrite(h, a) ==
    /\ Step
    /\ cacheMutex = "destroyed"
    /\ handles[h].open
    /\ Contains(handles[h].mode, "w") \/ Contains(handles[h].mode, "a")
    /\ LET f == handles[h]
           data == entries[f.entry].data
           bytesToWrite == a.size * a.count
           position == WritePosition(f, data)
           overflows == position + bytesToWrite > Len(data)
       IN  \/ /\ Commit([Cache EXCEPT !.entries[f.entry].data =
                            Memcpy(@, position, a.buf, bytesToWrite)],
                         [handles EXCEPT ![h].position = position + bytesToWrite,
                                         ![h].modified = TRUE,
                                         ![h].wrote = TRUE])
              /\ lastOp' = OpWith("write", entries[f.entry].filePath, h, "ok",
                                  a.count, a)
              /\ UNCHANGED cacheMutex
           \/ /\ overflows
              /\ cacheMutex' = "crashed"
              /\ lastOp' = OpWith("write", entries[f.entry].filePath, h, "crashed",
                                  0, a)
              /\ UNCHANGED << maxCacheSize, currentCacheSize, cacheMap, entries,
                              lruList, lruMap, cacheHits, cacheMisses, diskReads,
                              diskWrites, fileTypePriorities, handles >>
    /\ UNCHANGED <<disk, now>>

\* delete of a handle when cachePtr.lock() yields nothing: ~CacheFile flushes
\* a modified handle, nothing is counted and no statistics are updated
OrphanClose(h) ==
    /\ Step
    /\ cacheMutex = "destroyed"
    /\ handles[h].open
    /\ LET r == FileFlush(Cache, disk, handles[h])
       IN  /\ Commit(Cache, [handles EXCEPT ![h] = NoHandle])
           /\ disk' = r.disk
           /\ lastOp' = Op("close", entries[handles[h].entry].filePath, h,
                           IF r.ret = 0 THEN "ok" ELSE "fail", r.ret)
    /\ UNCHANGED <<cacheMutex, now>>

\* files are opened and written to, the cache is destroyed, and the handles
\* that are left are written to and deleted
OrphanNext ==
    \/ \E p \in Paths, mode \in Modes : OpenFile(p, mode)
    \/ \E h \in HandleIds, a \in WriteArgs : Write(h, a)
    \/ \E h \in HandleIds, a \in SeekArgs : Seek(h, a)
    \/ DestroyCache
    \/ \E h \in HandleIds, a \in WriteArgs : OrphanWrite(h, a)
    \/ \E h \in HandleIds : OrphanClose(h)

OrphanSpec == Init /\ [][OrphanNext]_vars

\* ------------------------------------------------------------------ claims

RECURSIVE SumOfLengths(_)
SumOfLengths(S) ==
    IF S = {} THEN 0
    ELSE LET p == CHOOSE q \in S : TRUE
         IN  Len(entries[cacheMap[p]].data) + SumOfLengths(S \ {p})

Resident(p) == entries[cacheMap[p]]

ErrorOpen(op) == op.op = "open" /\ op.ret \in {"notfound", "ioerror"}

\* C1: currentCacheSize equals the sum of the buffer lengths of the entries in
\* cacheMap, after every call.
SizeAccounting == currentCacheSize = SumOfLengths(DOMAIN cacheMap)

\* C2: the keys of cacheMap are the paths of the LRU list, which are the keys
\* of lruMap, and no path is in the LRU list twice.
IndexConsistency ==
    /\ DOMAIN cacheMap = Range(lruList)
    /\ lruMap = Range(lruList)
    /\ Cardinality(Range(lruList)) = Len(lruList)

\* C2 witness: a hit on one of two resident paths, after which both are still
\* listed once
HitWithTwoResident ==
    /\ lastOp.op = "open"
    /\ lastOp.ret = "hit"
    /\ Cardinality(DOMAIN cacheMap) = 2

\* C3: the fileSize in the metadata of every resident entry is the length of its
\* buffer.
MetadataSizeIsBufferLength ==
    \A p \in DOMAIN cacheMap : Resident(p).fileSize = Len(Resident(p).data)

\* C4: between calls currentCacheSize is at most maxCacheSize.
SoftBound == currentCacheSize <= maxCacheSize

\* C5: a resizeCache(N) with N at least the length of every resident buffer
\* returns with maxCacheSize = N and currentCacheSize <= N.
ResizeRespectsBound ==
    [][ ( /\ lastOp'.op = "resize"
          /\ \A p \in DOMAIN cacheMap : Len(Resident(p).data) <= lastOp'.n )
        => ( maxCacheSize' = lastOp'.n /\ currentCacheSize' <= lastOp'.n ) ]_vars

\* C6: openFile of a resident path counts one hit, moves the path to the front
\* of the LRU list, returns a new handle on the resident entry, and changes no
\* other counter, neither size, no key of the map and no buffer.
HitPath ==
    [][ ( lastOp'.op = "open" /\ lastOp'.path \in DOMAIN cacheMap )
        => LET p == lastOp'.path
               h == lastOp'.h
           IN  /\ lastOp'.ret = "hit"
               /\ cacheHits' = cacheHits + 1
               /\ lruList' = <<p>> \o SelectSeq(lruList, LAMBDA q : q # p)
               /\ h \in HandleIds
               /\ ~handles[h].open
               /\ handles'[h].open
               /\ handles'[h].entry = cacheMap[p]
               /\ cacheMap' = cacheMap
               /\ cacheMisses' = cacheMisses
               /\ diskReads' = diskReads
               /\ diskWrites' = diskWrites
               /\ currentCacheSize' = currentCacheSize
               /\ maxCacheSize' = maxCacheSize
               /\ disk' = disk
               /\ \A id \in DOMAIN entries :
                    id \in DOMAIN entries' /\ entries'[id].data = entries[id].data ]_vars

\* C6 witness: the first hit, on one of two listed paths, which is now at the
\* front of the LRU list
HitHappened ==
    /\ lastOp.op = "open"
    /\ lastOp.ret = "hit"
    /\ Len(lruList) = 2
    /\ lruList[1] = lastOp.path
    /\ cacheHits = 1

\* C7 as claimed: an openFile that returns nullptr changes no counter.
ErrorOpenLeavesCounters ==
    [][ ErrorOpen(lastOp')
        => /\ cacheHits' = cacheHits
           /\ cacheMisses' = cacheMisses
           /\ diskReads' = diskReads
           /\ diskWrites' = diskWrites ]_vars

\* C7 as amended: an openFile that returns nullptr counts one miss and changes
\* no other counter.
ErrorOpenCountsOneMiss ==
    [][ ErrorOpen(lastOp')
        => /\ cacheHits' = cacheHits
           /\ cacheMisses' = cacheMisses + 1
           /\ diskReads' = diskReads
           /\ diskWrites' = diskWrites ]_vars

\* C7 witness: a load that failed after an earlier load was counted
LoadFailed ==
    /\ lastOp.op = "open"
    /\ lastOp.ret = "ioerror"
    /\ diskReads = 1

\* C8: an openFile that returns nullptr returns no handle and leaves cacheMap,
\* the LRU index and both sizes as they were.
ErrorOpenChangesNothing ==
    [][ ErrorOpen(lastOp')
        => /\ lastOp'.h = 0
           /\ handles' = handles
           /\ cacheMap' = cacheMap
           /\ lruList' = lruList
           /\ lruMap' = lruMap
           /\ currentCacheSize' = currentCacheSize
           /\ maxCacheSize' = maxCacheSize ]_vars

\* C9: right after openFile returned a handle whose mode contains 'w', the
\* buffer of the handle's entry is empty.
WriteModeTruncates ==
    ( /\ lastOp.op = "open"
      /\ lastOp.h # 0
      /\ Contains(handles[lastOp.h].mode, "w") )
    => Len(entries[handles[lastOp.h].entry].data) = 0

\* C10: a read or a write through a handle whose mode contains '+' is not
\* refused for the mode.
PlusGrantsOtherDirection ==
    ( /\ lastOp.op \in {"read", "write"}
      /\ Contains(handles[lastOp.h].mode, "+") )
    => lastOp.ret = "ok"

\* C11 as claimed: closing a handle that has written, where its file opens for
\* writing, leaves the file equal to the buffer of the handle's entry and
\* counts exactly one disk write, the access statistics of the entry being
\* updated after the write-back in the same call; closing a handle that never
\* wrote writes nothing and counts nothing.
WriteBackAtClose ==
    [][ lastOp'.op = "close"
        => LET f == handles[lastOp'.h]
               entry == entries[f.entry]
               p == entry.filePath
           IN  /\ ( f.wrote /\ CanWrite(disk, p) )
                    => /\ lastOp'.ret = "ok"
                       /\ disk' = [disk EXCEPT ![p] = File(entry.data)]
                       /\ diskWrites' = diskWrites + 1
               /\ ~f.wrote
                    => /\ lastOp'.ret = "ok"
                       /\ disk' = disk
                       /\ diskWrites' = diskWrites
               /\ ~handles'[lastOp'.h].open
               /\ f.entry \in DOMAIN entries'
                    => /\ entries'[f.entry].accessCount = entry.accessCount + 1
                       /\ entries'[f.entry].data = entry.data ]_vars

\* C11 as amended: closing a handle that has written since it was last
\* flushed (modified), where its file opens for writing, leaves the file equal
\* to the buffer of the handle's entry and counts exactly one disk write, the
\* access statistics of the entry being updated after the write-back in the
\* same call; closing a handle that is not modified, because it never wrote or
\* because it was flushed after its last write, writes nothing and counts
\* nothing.
ModifiedWriteBackAtClose ==
    [][ lastOp'.op = "close"
        => LET f == handles[lastOp'.h]
               entry == entries[f.entry]
               p == entry.filePath
           IN  /\ ( f.modified /\ CanWrite(disk, p) )
                    => /\ lastOp'.ret = "ok"
                       /\ disk' = [disk EXCEPT ![p] = File(entry.data)]
                       /\ diskWrites' = diskWrites + 1
               /\ ~f.modified
                    => /\ lastOp'.ret = "ok"
                       /\ disk' = disk
                       /\ diskWrites' = diskWrites
               /\ ~handles'[lastOp'.h].open
               /\ f.entry \in DOMAIN entries'
                    => /\ entries'[f.entry].accessCount = entry.accessCount + 1
                       /\ entries'[f.entry].data = entry.data ]_vars

\* C11 witness: open, write, close: the close wrote the 2 of the write to the
\* file, which is the one disk write so far
ClosedAfterWrite ==
    /\ lastOp.op = "close"
    /\ lastOp.ret = "ok"
    /\ calls = 3
    /\ diskWrites = 1
    /\ 2 \in Range(disk[lastOp.path].data)

\* C12: a write through a handle whose mode contains 'a' leaves the bytes the
\* buffer had before the write where they were and puts the written bytes
\* right after them, wherever the cursor was, and leaves the cursor at the
\* new end.
AppendNeverOverwrites ==
    [][ ( lastOp'.op = "write" /\ Contains(handles[lastOp'.h].mode, "a") )
        => LET f == handles[lastOp'.h]
               old == entries[f.entry].data
               new == entries'[f.entry].data
           IN  /\ lastOp'.ret = "ok"
               /\ SubSeq(new, 1, Len(old)) = old
               /\ \E a \in WriteArgs : new = old \o a.buf
               /\ handles'[lastOp'.h].position = Len(new) ]_vars

\* C12 witness: an "a+" handle on the two bytes of a.cfg, its cursor at 0 since
\* the open, has written a 2: the 2 is the third byte
AppendedWithCursorAtStart ==
    /\ lastOp.op = "write"
    /\ calls = 2
    /\ Contains(handles[lastOp.h].mode, "a")
    /\ entries[handles[lastOp.h].entry].data = <<1, 1, 2>>

\* C13: a flush() during which every file of a resident path opens for writing
\* leaves every such file equal to the buffer of its entry, every other file
\* as it was, counts one disk write per resident entry, and changes no buffer,
\* no key of the map, neither LRU structure and not currentCacheSize; flushing
\* twice therefore counts twice the number of entries.
EngineFlushIdempotent ==
    [][ ( /\ lastOp'.op = "flush"
          /\ \A p \in DOMAIN cacheMap : CanWrite(disk, p) )
        => /\ \A p \in DOMAIN cacheMap : disk'[p] = File(Resident(p).data)
           /\ \A p \in Paths \ DOMAIN cacheMap : disk'[p] = disk[p]
           /\ diskWrites' = diskWrites + Cardinality(DOMAIN cacheMap)
           /\ cacheMap' = cacheMap
           /\ entries' = entries
           /\ lruList' = lruList
           /\ lruMap' = lruMap
           /\ currentCacheSize' = currentCacheSize ]_vars

\* C13 witness: two paths opened, then flush() twice: four disk writes, both
\* files equal to the buffers
FlushedTwice ==
    /\ lastOp.op = "flush"
    /\ calls = 4
    /\ Cardinality(DOMAIN cacheMap) = 2
    /\ diskWrites = 4
    /\ \A p \in DOMAIN cacheMap : disk[p] = File(Resident(p).data)

OperationsRunToCompletion ==
    /\ cacheMutex = "free"
    /\ lastOp.ret # "deadlock"

\* C16: what a handle whose mode contains 'w' leaves in its buffer, empty or
\* not, is the contents of its file once the handle is closed, and a cache
\* constructed afterwards that opens the file for reading returns a handle at
\* position 0 on a buffer with these contents, from which read copies; the
\* files open for writing and for reading whenever they exist.
RoundTrip ==
    [][ /\ ( /\ lastOp'.op = "close"
             /\ Contains(handles[lastOp'.h].mode, "w")
             /\ CanWrite(disk, lastOp'.path) )
           => disk'[lastOp'.path] = File(entries[handles[lastOp'.h].entry].data)
        /\ ( /\ lastOp'.op = "open"
             /\ lastOp'.ret # "created"
             /\ lastOp.op = "fresh"
             /\ disk[lastOp'.path].exists
             /\ disk[lastOp'.path].ok )
           => /\ lastOp'.h # 0
              /\ handles'[lastOp'.h].position = 0
              /\ entries'[handles'[lastOp'.h].entry].data = disk[lastOp'.path].data
      ]_vars

TypePriorityOf(entry) ==
    IF entry.fileType \in DOMAIN fileTypePriorities
    THEN fileTypePriorities[entry.fileType] ELSE 5000

\* the two entries were accessed as often and at the same time
SameStats(e1, e2) ==
    /\ e1.accessCount = e2.accessCount
    /\ e1.lastAccessed = e2.lastAccessed

\* the open that has just returned loaded a file of the given size for which
\* room had to be made
ArrivalNeedingRoom(size) ==
    /\ lastOp'.op = "open"
    /\ lastOp'.ret = "loaded"
    /\ Len(disk[lastOp'.path].data) = size
    /\ currentCacheSize + size > maxCacheSize

\* C18: when exactly two entries are resident, accessed as often and at the
\* same time, and a file is loaded for which room must be made, then (a) if
\* the two are as large as the arrival and have type priorities 0.9 and 0.1,
\* the one with 0.1 is evicted and the one with 0.9 stays; (b) if they are a
\* .bin of 1536 bytes and a .cfg of 256 bytes in a cache of 2048 and the
\* arrival has 1024 bytes, the .bin is evicted and the .cfg stays.
TypePriorityOrdering ==
    [][ \A p, q \in DOMAIN cacheMap :
          ( /\ DOMAIN cacheMap = {p, q}
            /\ p # q
            /\ SameStats(Resident(p), Resident(q)) )
          => /\ ( /\ ArrivalNeedingRoom(Len(Resident(p).data))
                  /\ Len(Resident(p).data) = Len(Resident(q).data)
                  /\ TypePriorityOf(Resident(p)) = 9000
                  /\ TypePriorityOf(Resident(q)) = 1000 )
                => ( p \in DOMAIN cacheMap' /\ q \notin DOMAIN cacheMap' )
             /\ ( /\ ArrivalNeedingRoom(1024)
                  /\ maxCacheSize = 2048
                  /\ Resident(p).fileType = <<".", "c", "f", "g">>
                  /\ Len(Resident(p).data) = 256
                  /\ Resident(q).fileType = <<".", "b", "i", "n">>
                  /\ Len(Resident(q).data) = 1536 )
                => ( p \in DOMAIN cacheMap' /\ q \notin DOMAIN cacheMap' ) ]_vars

\* C18 witness: in the cache of 4, a.cfg and c.exe were loaded and closed
\* without a clock step in between, then b.bin was loaded as the fifth call:
\* a.cfg is resident with b.bin, c.exe is not
ExeEvictedCfgStays ==
    /\ lastOp.op = "open"
    /\ lastOp.ret = "loaded"
    /\ lastOp.path = "b.bin"
    /\ maxCacheSize = 4
    /\ calls = 5
    /\ now = 0
    /\ cacheHits = 0
    /\ cacheMisses = 3
    /\ diskReads = 3
    /\ DOMAIN cacheMap = {"a.cfg", "b.bin"}
    /\ Resident("a.cfg").accessCount = 1

\* C19: in every state the priorityScore of every entry, resident or held by
\* a handle, scored or not yet, lies between 0 and 1 (10000).
ScoreRange ==
    \A id \in DOMAIN entries :
        entries[id].priorityScore >= 0 /\ entries[id].priorityScore <= 10000

\* a setFileTypePriority has just returned that gave the extension of the
\* resident entry of path p, which was not in the table, a priority above the
\* default
RaisedFromDefault(p) ==
    /\ lastOp'.op = "priority"
    /\ Resident(p).fileType \notin DOMAIN fileTypePriorities
    /\ Resident(p).fileType \in DOMAIN fileTypePriorities'
    /\ fileTypePriorities'[Resident(p).fileType] > TypePriorityOf(Resident(p))

\* C20 as claimed: a setFileTypePriority that raises the priority of the
\* extension of a resident entry from the default leaves the entry's
\* priorityScore strictly greater than it was before the call, whatever time
\* has passed since the entry was loaded.
RaisingPriorityRaisesScore ==
    [][ \A p \in DOMAIN cacheMap :
          RaisedFromDefault(p)
          => entries'[cacheMap[p]].priorityScore > Resident(p).priorityScore ]_vars

\* C20 as amended: such a call leaves the entry's priorityScore strictly
\* greater than the score calculatePriorityScore yields for the entry at the
\* time of the call with the old priority, hence strictly greater than the
\* stored score whenever the stored score is that score.
RaisingPriorityRaisesCurrentScore ==
    [][ \A p \in DOMAIN cacheMap :
          RaisedFromDefault(p)
          => LET current == CalculatePriorityScore(Resident(p), fileTypePriorities)
                 after == entries'[cacheMap[p]].priorityScore
             IN  /\ after > current
                 /\ Resident(p).priorityScore = current
                      => after > Resident(p).priorityScore ]_vars

\* C20 witness: b.bin was loaded with score 0.58 and .bin was given 0.95 at
\* once: the score is 0.715
PriorityRaisedAtOnce ==
    /\ lastOp.op = "priority"
    /\ calls = 2
    /\ "b.bin" \in DOMAIN cacheMap
    /\ Resident("b.bin").priorityScore = 7150

\* what openFile for reading does with a file: it admits it or not
Loadable(file) == file.exists /\ file.ok /\ Len(file.data) > 0

\* C21: every openFile counts one hit or one miss, and an openFile for reading
\* that runs while another thread closes a handle of the same path ends as it
\* would before that close or after it: the path is admitted if the file as it
\* was before the close would be, or if the file the close leaves would be, and
\* with the length of that file.
OpensLinearizable ==
    [][ lastOp'.op = "open"
        => /\ cacheHits' + cacheMisses' = cacheHits + cacheMisses + 1
           /\ \A h \in HandleIds :
                ( /\ InClose(h)
                  /\ entries[handles[h].entry].filePath = lastOp'.path
                  /\ lastOp'.ret \notin {"hit", "created"} )
                => LET before == handles[h].closing.before
                       after == File(entries[handles[h].entry].data)
                       p == lastOp'.path
                   IN  \E file \in {before, after} :
                         /\ (p \in DOMAIN cacheMap') = Loadable(file)
                         /\ p \in DOMAIN cacheMap'
                              => entries'[cacheMap'[p]].data = file.data ]_vars

\* C22: the statistics accessors read the engine's fields only while no other
\* thread holds cacheMutex, so printStats never runs while a thread is inside
\* a write that grows the buffer, between makeRoomInCache and the charge of the
\* added bytes.
AccessorsHoldMutex ==
    [][ lastOp'.op = "printStats" => cacheMutex = "free" ]_vars

\* C23: read on a handle whose mode has no 'r' returns 0 and leaves the handle
\* as it was; otherwise the cursor advances by n = min(size * count, length -
\* cursor), also when n is no multiple of size, and floor(n / size) is
\* returned.  In both cases the buffers, the dirty flag and the engine's fields
\* are as before.
ReadContract ==
    [][ lastOp'.op = "read"
        => LET h == lastOp'.h
               f == handles[h]
               data == entries[f.entry].data
           IN  /\ LET a == lastOp'.arg
                      n == Min(a.size * a.count, Len(data) - f.position)
                  IN  IF Contains(f.mode, "r")
                      THEN /\ handles' = [handles EXCEPT ![h].position = f.position + n]
                           /\ lastOp'.n = n \div a.size
                      ELSE /\ handles' = handles
                           /\ lastOp'.n = 0
               /\ handles'[h].modified = f.modified
               /\ UNCHANGED << maxCacheSize, currentCacheSize, cacheMap, entries,
                               lruList, lruMap, cacheHits, cacheMisses, diskReads,
                               diskWrites, fileTypePriorities, disk >> ]_vars

\* a read of one item of 2 bytes from a buffer of 1 byte has returned 0 and left
\* the cursor at 1
ReadPartItem ==
    /\ lastOp.op = "read"
    /\ lastOp.ret = "ok"
    /\ lastOp.n = 0
    /\ handles[lastOp.h].open
    /\ handles[lastOp.h].position = 1
    /\ Len(entries[handles[lastOp.h].entry].data) = 1

\* what a write through handle h has done, evicted being the number of bytes
\* that left currentCacheSize with the entries makeRoomInCache evicted
WriteOutcome(h, evicted) ==
    LET f == handles[h]
        old == entries[f.entry].data
        new == entries'[f.entry].data
    IN  IF Contains(f.mode, "w") \/ Contains(f.mode, "a")
        THEN LET a == lastOp'.arg
                 n == a.size * a.count
                 p == WritePosition(f, old)
             IN  /\ Len(new) = Max(Len(old), p + n)
                 /\ \A i \in 1..n : new[p + i] = a.buf[i]
                 /\ handles'[h].position = p + n
                 /\ handles'[h].modified
                 /\ lastOp'.n = a.count
                 /\ currentCacheSize' = currentCacheSize - evicted + (Len(new) - Len(old))
        ELSE /\ lastOp'.n = 0
             /\ UNCHANGED << maxCacheSize, currentCacheSize, cacheMap, entries,
                             lruList, lruMap, cacheHits, cacheMisses, diskReads,
                             diskWrites, fileTypePriorities, handles, disk >>

\* C24 as claimed: a write of n = size * count bytes at p leaves a buffer of
\* max(old length, p + n) bytes with the input at [p, p + n), the cursor at
\* p + n, the handle dirty, returns count, and currentCacheSize has grown by
\* exactly the growth of the buffer; without 'w' or 'a' in the mode it returns 0
\* and changes nothing.
WriteContract ==
    [][ lastOp'.op = "write" => WriteOutcome(lastOp'.h, 0) ]_vars

\* C24 as amended: the same, currentCacheSize having grown by the growth of the
\* buffer less the buffer lengths of the entries that makeRoomInCache evicted.
WriteContractWithEvictions ==
    [][ lastOp'.op = "write"
        => WriteOutcome(lastOp'.h, SumOfLengths(DOMAIN cacheMap \ DOMAIN cacheMap')) ]_vars

\* C24 witness: a write has grown a buffer to 3 bytes in a cache of 3 while
\* the entry of the other handle, 2 bytes long, is no longer in cacheMap
WroteAfterEviction ==
    /\ lastOp.op = "write"
    /\ lastOp.ret = "ok"
    /\ maxCacheSize = 3
    /\ currentCacheSize = 3
    /\ \A h \in HandleIds : handles[h].open
    /\ LET f == handles[lastOp.h]
       IN  /\ lastOp.path \in DOMAIN cacheMap
           /\ cacheMap[lastOp.path] = f.entry
           /\ Len(entries[f.entry].data) = 3
    /\ \E g \in HandleIds \ {lastOp.h} :
         /\ entries[handles[g].entry].filePath \notin DOMAIN cacheMap
         /\ Len(entries[handles[g].entry].data) = 2

\* C25: seek returns -1 and leaves the cursor where it was exactly when the
\* origin is none of SEEK_SET, SEEK_CUR, SEEK_END or the position asked for is
\* below 0 or above the buffer length; otherwise it returns 0 with the cursor at
\* that position.  tell returns the cursor.
SeekContract ==
    [][ /\ lastOp'.op = "seek"
           => LET h == lastOp'.h
                  f == handles[h]
                  length == Len(entries[f.entry].data)
                  a == lastOp'.arg
                  target == CASE a.origin = 0 -> a.offset
                              [] a.origin = 1 -> f.position + a.offset
                              [] a.origin = 2 -> length + a.offset
                              [] OTHER -> 0
                  fails == \/ a.origin \notin {0, 1, 2}
                           \/ target < 0
                           \/ target > length
              IN  IF fails
                  THEN lastOp'.n = -1 /\ handles' = handles
                  ELSE /\ lastOp'.n = 0
                       /\ handles' = [handles EXCEPT ![h].position = target]
        /\ lastOp'.op = "tell"
           => lastOp'.n = handles[lastOp'.h].position /\ handles' = handles ]_vars

\* C25 witness: a seek to 1 byte before the current position of a handle at the
\* start of a buffer of 2 bytes was refused, and the cursor is still at 0
SeekBeforeStartRefused ==
    /\ lastOp.op = "seek"
    /\ lastOp.ret = "fail"
    /\ lastOp.arg = [offset |-> -1, origin |-> 1]
    /\ handles[lastOp.h].position = 0
    /\ Len(entries[handles[lastOp.h].entry].data) = 2

\* C26: closeFile adds 1 to the accessCount of the handle's entry, sets its
\* lastAccessed to the time of the call and leaves its priorityScore equal to
\* calculatePriorityScore of the entry as it then is, whether or not the entry
\* is still in cacheMap (the entry is looked at when another handle keeps it
\* alive).
CloseUpdatesEntry ==
    [][ ( lastOp'.op = "close" /\ handles[lastOp'.h].entry \in DOMAIN entries' )
        => LET id == handles[lastOp'.h].entry
           IN  /\ entries'[id].accessCount = entries[id].accessCount + 1
               /\ entries'[id].lastAccessed = now
               /\ entries'[id].priorityScore =
                      CalculatePriorityScore(entries'[id], fileTypePriorities') ]_vars

\* the call that has just returned ran makeRoomInCache: a write that had to
\* grow its buffer, or an openFile that loaded a file
RoomMade ==
    \/ lastOp'.op = "write" /\ lastOp'.ret = "ok" /\ Grows(lastOp'.h, lastOp'.arg)
    \/ lastOp'.op = "open" /\ lastOp'.ret = "loaded"

\* the requiredSize of that makeRoomInCache: additionalSpace of the write, or
\* the size of the file
RequiredSize ==
    IF lastOp'.op = "write"
    THEN LET f == handles[lastOp'.h]
             old == entries[f.entry].data
         IN  WritePosition(f, old) + lastOp'.arg.size * lastOp'.arg.count - Len(old)
    ELSE Len(disk[lastOp'.path].data)

\* the paths makeRoomInCache has just evicted: the arrival itself is no path of
\* cacheMap before the call
EvictedPaths == DOMAIN cacheMap \ DOMAIN cacheMap'

\* C27: makeRoomInCache(required) evicts nothing and changes neither
\* maxCacheSize nor a score when currentCacheSize + required <= maxCacheSize;
\* otherwise it stops evicting as soon as the required bytes fit (without the
\* last victim they did not fit), raises maxCacheSize, to currentCacheSize +
\* required, only when cacheMap is empty, and in every case returns with
\* currentCacheSize + required <= maxCacheSize.
MakeRoomContract ==
    [][ RoomMade
          => LET required == RequiredSize
                 sizeAfter == currentCacheSize' - required
                 mapAfter == DOMAIN cacheMap \cap DOMAIN cacheMap'
             IN  /\ sizeAfter = currentCacheSize - SumOfLengths(EvictedPaths)
                 /\ sizeAfter + required <= maxCacheSize'
                 /\ IF currentCacheSize + required <= maxCacheSize
                    THEN /\ EvictedPaths = {}
                         /\ maxCacheSize' = maxCacheSize
                         /\ \A q \in DOMAIN cacheMap :
                              entries'[cacheMap[q]].priorityScore =
                                  Resident(q).priorityScore
                    ELSE /\ EvictedPaths # {}
                            => \E v \in EvictedPaths :
                                 sizeAfter + Len(Resident(v).data) + required
                                     > maxCacheSize
                         /\ maxCacheSize' # maxCacheSize
                            => /\ mapAfter = {}
                               /\ maxCacheSize' = sizeAfter + required ]_vars

\* C27 witness: a file of 2 bytes was loaded into a cache of 4 that stayed a
\* cache of 4 and holds one more entry of 2 bytes, whereas a handle is open on
\* an entry that is no longer in cacheMap
LoadedAfterSomeEvictions ==
    /\ lastOp.op = "open"
    /\ lastOp.ret = "loaded"
    /\ maxCacheSize = 4
    /\ currentCacheSize = 4
    /\ Cardinality(DOMAIN cacheMap) = 2
    /\ \A q \in DOMAIN cacheMap : Len(Resident(q).data) = 2
    /\ Cardinality({ h \in HandleIds :
                       /\ handles[h].open
                       /\ entries[handles[h].entry].filePath \notin DOMAIN cacheMap }) >= 1

\* the score updateAllScores gives the resident entry of path p at the start of
\* makeRoomInCache
Rescored(p) == CalculatePriorityScore(Resident(p), fileTypePriorities)

\* C28: whenever makeRoomInCache has evicted entries, for a load, a growing
\* write or a resizeCache, every entry it evicted had, with the scores
\* recomputed at its start, a score no higher than every entry it left in
\* cacheMap; and findEntryForEviction returns no victim exactly when cacheMap
\* is empty.
MinimumScoreVictim ==
    [][ /\ ( RoomMade \/ lastOp'.op = "resize" )
           => \A v \in EvictedPaths :
                \A q \in DOMAIN cacheMap \cap DOMAIN cacheMap' :
                  Rescored(v) <= Rescored(q)
        /\ ( "" \in FindEntryForEviction(Cache) ) <=> ( DOMAIN cacheMap = {} ) ]_vars

\* C28 witness: a file was loaded, a handle is open on an entry that is no
\* longer in cacheMap, and an older entry with a higher score is still there
LowerScoreEvicted ==
    /\ lastOp.op = "open"
    /\ lastOp.ret = "loaded"
    /\ \E h \in HandleIds, q \in DOMAIN cacheMap \ {lastOp.path} :
         /\ handles[h].open
         /\ entries[handles[h].entry].filePath \notin DOMAIN cacheMap
         /\ entries[handles[h].entry].priorityScore < Resident(q).priorityScore

\* the resident paths with the lowest score at the start of makeRoomInCache
LowestRescored ==
    { p \in DOMAIN cacheMap : \A q \in DOMAIN cacheMap : Rescored(p) <= Rescored(q) }

\* C29: when makeRoomInCache has evicted one entry while two or more entries
\* shared the lowest score, the entry it evicted is the one at the back of
\* lruList, the path touched least recently.
TieBreakByRecency ==
    [][ ( /\ RoomMade
          /\ Cardinality(EvictedPaths) = 1
          /\ Cardinality(LowestRescored) >= 2 )
        => EvictedPaths = { lruList[Len(lruList)] } ]_vars

\* C30: setFileTypePriority called with "CFG", ".CFG", "cfg" or ".cfg" stores
\* the priority, clamped to [0, 1], under the key ".cfg" and changes no other
\* key; every priority of the table is in [0, 1]; and the call changes the
\* priorityScore of no entry whose extension is not ".cfg".
TypePriorityContract ==
    [][ ( lastOp'.op = "priority" /\ lastOp'.arg.ext \in CfgSpellings )
        => LET key == <<".", "c", "f", "g">>
               value == Max(0, Min(10000, lastOp'.arg.priority))
           IN  /\ fileTypePriorities' = (key :> value) @@ fileTypePriorities
               /\ \A e \in DOMAIN fileTypePriorities' :
                    fileTypePriorities'[e] >= 0 /\ fileTypePriorities'[e] <= 10000
               /\ \A id \in DOMAIN entries :
                    entries[id].fileType # key
                    => entries'[id].priorityScore = entries[id].priorityScore ]_vars

\* C31: in every state the entry of every open handle is the entry cacheMap
\* holds under the handle's path: no eviction and no clear takes the entry of
\* an open handle out of cacheMap.
HandlesPinEntries ==
    \A h \in HandleIds :
        handles[h].open
        => LET p == entries[handles[h].entry].filePath
           IN  p \in DOMAIN cacheMap /\ cacheMap[p] = handles[h].entry

\* C32: when closeFile has written the buffer of a modified handle to its file,
\* an engine flush called next does not put back the contents that the close
\* replaced: the file still holds what the handle wrote.
NoLostUpdate ==
    [][ ( /\ lastOp'.op = "close"
          /\ lastOp'.ret = "ok"
          /\ handles[lastOp'.h].modified )
        => LET p == lastOp'.path
               flushed == FlushAll(Cache', disk').disk[p]
           IN  flushed.data = disk[p].data => disk'[p].data = disk[p].data ]_vars

\* C33: in every state the position of every open handle is at least 0 and at
\* most the length of the buffer of its entry, also after the cache that
\* created the handle was destroyed.
CursorInsideBuffer ==
    \A h \in HandleIds :
        handles[h].open
        => /\ handles[h].position >= 0
           /\ handles[h].position <= Len(entries[handles[h].entry].data)

====
